---------------------------- MODULE Spec2Model ----------------------------
(***************************************************************************)
(* Model of the remotesrv HTTP file-transfer handler (ServeHTTP and the   *)
(* functions it calls: writeTableFile, writeLocal, offsetAndLenFromRange, *)
(* readFile, readChunk, readLocalRange).                                   *)
(*                                                                         *)
(* Strings are sequences of one-character strings, so that TrimLeft,      *)
(* Split, HasPrefix, TrimSpace and ParseUint are computed as the Go code  *)
(* computes them.  A path is a sequence over "/" and name atoms (one atom *)
(* stands for one whole non-empty, slash-free segment).                   *)
(***************************************************************************)
EXTENDS Integers, Sequences, FiniteSets, TLC

(***************************************************************************)
(* Bounds                                                                  *)
(***************************************************************************)
\* longest request body / stored file, in bytes
MaxLen == 2

\* width of uint64 / int64 / int in the model (scaled down from 64 bits);
\* all wrap-arounds of the code happen at 2^IntBits
IntBits == 5

Byte == {0, 1}

Procs == {1, 2}

\* http status codes used by the handler
StatusOK == 200

StatusBadRequest == 400

StatusNotFound == 404

StatusMethodNotAllowed == 405

StatusInternalServerError == 500

\* the "no status" value returned by the read paths
NoStatus == 0 - 1

MethodGet == "GET"

MethodPost == "POST"

MethodPut == "PUT"

Methods == {MethodGet, MethodPost, MethodPut, "DELETE"}

(***************************************************************************)
(* Integer conversions                                                     *)
(***************************************************************************)
TwoPow(n) == 2 ^ n

\* uint64(x): reduction modulo 2^w
ToUint64(x) == x % TwoPow(IntBits)

\* int64(x): two's complement reading of x modulo 2^w
ToInt64(x) ==
    LET u == x % TwoPow(IntBits)
    IN  IF u >= TwoPow(IntBits - 1) THEN u - TwoPow(IntBits) ELSE u

(***************************************************************************)
(* String helpers (strings package)                                        *)
(***************************************************************************)
Digits == <<"0", "1", "2", "3", "4", "5", "6", "7", "8", "9">>

IsDigit(c) == \E i \in 1..10 : Digits[i] = c

DigitVal(c) == (CHOOSE i \in 1..10 : Digits[i] = c) - 1

RECURSIVE FormatUint(_)
\* decimal text of a natural number
FormatUint(n) ==
    IF n < 10 THEN <<Digits[n + 1]>>
    ELSE Append(FormatUint(n \div 10), Digits[(n % 10) + 1])

HasPrefix(s, pre) ==
    /\ Len(s) >= Len(pre)
    /\ SubSeq(s, 1, Len(pre)) = pre

RECURSIVE TrimLeft(_, _)
TrimLeft(s, c) ==
    IF s # <<>> /\ s[1] = c THEN TrimLeft(Tail(s), c) ELSE s

RECURSIVE TrimRight(_, _)
TrimRight(s, c) ==
    IF s # <<>> /\ s[Len(s)] = c THEN TrimRight(SubSeq(s, 1, Len(s) - 1), c) ELSE s

TrimSpace(s) == TrimRight(TrimLeft(s, " "), " ")

RECURSIVE Split(_, _)
\* strings.Split(s, sep) for a one-character separator: always at least
\* one token, n separators give n+1 tokens
Split(s, sep) ==
    IF \A i \in 1..Len(s) : s[i] # sep THEN <<s>>
    ELSE LET k == CHOOSE i \in 1..Len(s) :
                     /\ s[i] = sep
                     /\ \A j \in 1..(i - 1) : s[j] # sep
         IN  <<SubSeq(s, 1, k - 1)>> \o Split(SubSeq(s, k + 1, Len(s)), sep)

RECURSIVE DecimalValue(_)
DecimalValue(s) ==
    IF s = <<>> THEN 0
    ELSE 10 * DecimalValue(SubSeq(s, 1, Len(s) - 1)) + DigitVal(s[Len(s)])

\* strconv.ParseUint(s, 10, 64): error on empty text, on a non-digit and on
\* a value that does not fit the unsigned width
ParseUint(s) ==
    IF s = <<>> \/ (\E i \in 1..Len(s) : ~IsDigit(s[i]))
    THEN [err |-> TRUE, val |-> 0]
    ELSE IF DecimalValue(s) >= TwoPow(IntBits)
         THEN [err |-> TRUE, val |-> TwoPow(IntBits) - 1]
         ELSE [err |-> FALSE, val |-> DecimalValue(s)]

BytesEq == <<"b", "y", "t", "e", "s", "=">>

\* offsetAndLenFromRange: (offset, length, err)
offsetAndLenFromRange(rngStr) ==
    IF rngStr = <<>> THEN [offset |-> -1, length |-> -1, err |-> FALSE]
    ELSE IF ~HasPrefix(rngStr, BytesEq)
    THEN [offset |-> -1, length |-> -1, err |-> TRUE]
    ELSE LET tokens == Split(SubSeq(rngStr, 7, Len(rngStr)), "-")
         IN  IF Len(tokens) # 2
             THEN [offset |-> -1, length |-> -1, err |-> TRUE]
             ELSE LET start == ParseUint(TrimSpace(tokens[1]))
                      end   == ParseUint(TrimSpace(tokens[2]))
                  IN  IF start.err \/ end.err
                      THEN [offset |-> -1, length |-> -1, err |-> TRUE]
                      ELSE [offset |-> ToInt64(start.val),
                            length |-> ToInt64(ToInt64(ToUint64(end.val - start.val)) + 1),
                            err    |-> FALSE]


(***************************************************************************)
(* Hashes, manifests, the store                                            *)
(***************************************************************************)
\* the fileID segments requests use: "h1" is the text of a Hash, "bad" is not
FileIdSegs == {"h1", "bad"}

\* hash.MaybeParse: ok iff the text is a well-formed Hash
MaybeParse(fileId) == fileId \in {"h1"}

\* md5.Sum(data) as a digest: a deterministic function of the whole body.
\* The digest is short, so distinct bodies may collide.
MD5Sum(data) ==
    LET RECURSIVE Fold(_)
        Fold(i) == IF i = 0 THEN 0 ELSE Fold(i - 1) + i * (data[i] + 1)
    IN  <<Fold(Len(data)) % 3>>

Bodies == UNION {[1..n -> Byte] : n \in 0..MaxLen}

\* remotesapi.TableFileDetails values the control plane may register
Manifests ==
    [ContentLength : 0..MaxLen,
     ContentHash   : {<<>>} \cup {MD5Sum(b) : b \in Bodies}]

NoManifest == [ContentLength |-> 0, ContentHash |-> <<>>]

\* filepath.Join(org, repo, fileId) for non-empty slash-free segments
Join(org, repo, fileId) == <<org, repo, fileId>>

Keys == {Join("o1", "r1", f) : f \in FileIdSegs}

NoFile == [exists |-> FALSE, bytes |-> <<>>]

File(b) == [exists |-> TRUE, bytes |-> b]

(***************************************************************************)
(* Request inputs                                                          *)
(***************************************************************************)
PathOf(segs) ==
    LET RECURSIVE Build(_)
        Build(i) == IF i = 0 THEN <<>> ELSE Build(i - 1) \o <<"/", segs[i]>>
    IN  Build(Len(segs))

PathInputs ==
    {PathOf(<<"o1", "r1", f>>) : f \in FileIdSegs}
        \cup {<<"/">>, PathOf(<<"o1", "r1">>), PathOf(<<"o1", "r1", "h1", "x">>)}

\* numbers used in Range headers: small ones around the file sizes and the
\* ones at the edges of the signed and unsigned widths
RangeNums ==
    (0..MaxLen) \cup {TwoPow(IntBits - 1) - 1, TwoPow(IntBits - 1),
     TwoPow(IntBits) - 1, TwoPow(IntBits)}

RangeOf(a, b) == BytesEq \o FormatUint(a) \o <<"-">> \o FormatUint(b)

RangeInputs ==
    {<<>>}
        \cup {RangeOf(a, b) : a \in RangeNums, b \in RangeNums}
        \cup {BytesEq \o <<"0">>,
              <<"0", "-", "1">>,
              BytesEq \o <<"0", "-", "1", "-", "2">>,
              BytesEq \o <<"x", "-", "1">>,
              BytesEq \o <<"0", "-", "x">>,
              BytesEq \o <<"-", "1">>,
              BytesEq \o <<" ", "0", " ", "-", " ", "1", " ">>}

(***************************************************************************)
(* State                                                                   *)
(***************************************************************************)
VARIABLES
    expectedFiles,  \* the admission registry: fileID -> [ok, tfd]
    store,          \* the files on disk: key -> [exists, bytes]
    req,            \* req[p]: the request worker p is serving
    pc,             \* pc[p]: where worker p is in the handler
    loc,            \* loc[p]: the local variables of the handler
    resp,           \* resp[p]: what was done to the ResponseWriter
    ioLog,          \* ioLog[p]: registry and file operations of the request
    storeAtBegin,   \* storeAtBegin[p]: the store when the request arrived
    lastUpload,     \* history: what the latest request did, if it was an upload
                    \* rejected for its length or an upload that stored its body
    prevUpload,     \* prevUpload[p]: lastUpload when the request of p arrived
    rangeCall,      \* a call of offsetAndLenFromRange: its argument and result
    necCall         \* a call of IsNecessary: its arguments and result

\* the variables of the calls of the pure functions
pureVars == <<rangeCall, necCall>>

vars ==
    <<expectedFiles, store, req, pc, loc, resp, ioLog, storeAtBegin, lastUpload,
      prevUpload, rangeCall, necCall>>

NoRangeCall ==
    [in |-> <<>>, done |-> FALSE, out |-> [offset |-> 0, length |-> 0, err |-> FALSE]]

NoNecCall ==
    [srcSch |-> <<>>, destSch |-> <<>>, destToSrc |-> {}, done |-> FALSE, out |-> FALSE]

NoReq == [method |-> "", path |-> <<>>, range |-> <<>>, body |-> <<>>, bodyErr |-> FALSE]

NoHandle == [open |-> FALSE, key |-> <<>>, pos |-> 0]

NoLoc ==
    [org |-> "", repo |-> "", hashStr |-> "", statusCode |-> 0,
     tfd |-> NoManifest, offset |-> 0, length |-> 0, size |-> 0,
     fh |-> NoHandle, n |-> 0, data |-> <<>>]

NoResp == [hdr |-> <<>>, status |-> 0, body |-> <<>>, fault |-> FALSE]

NoUpload ==
    [kind |-> "", fileId |-> "", tfd |-> NoManifest,
     body |-> <<>>, longerBefore |-> FALSE]

\* http.ResponseWriter.WriteHeader: the first call commits the status, a
\* later call is superfluous and changes nothing on the wire
WriteHeader(r, code) ==
    [r EXCEPT !.hdr = Append(@, code),
              !.status = IF @ = 0 THEN code ELSE @]

\* http.ResponseWriter.Write: commits 200 if no status was committed yet
Write(r, bytes) ==
    [r EXCEPT !.status = IF @ = 0 THEN StatusOK ELSE @,
              !.body = @ \o bytes]

Init ==
    /\ expectedFiles = [f \in FileIdSegs |-> [ok |-> FALSE, tfd |-> NoManifest]]
    /\ store = [k \in Keys |-> NoFile]
    /\ req = [p \in Procs |-> NoReq]
    /\ pc = [p \in Procs |-> "idle"]
    /\ loc = [p \in Procs |-> NoLoc]
    /\ resp = [p \in Procs |-> NoResp]
    /\ ioLog = [p \in Procs |-> <<>>]
    /\ storeAtBegin = [p \in Procs |-> store]
    /\ lastUpload = NoUpload
    /\ prevUpload = [p \in Procs |-> NoUpload]
    /\ rangeCall = NoRangeCall
    /\ necCall = NoNecCall


(***************************************************************************)
(* Helpers of the actions                                                  *)
(***************************************************************************)
Idle == \A q \in Procs : pc[q] = "idle"

SegStr(tok) == IF tok = <<>> THEN "" ELSE tok[1]

Key(p) == Join(loc[p].org, loc[p].repo, loc[p].hashStr)

IsUpload(m) == m \in {MethodPost, MethodPut}

Log(p, op) == ioLog' = [ioLog EXCEPT ![p] = Append(@, op)]

\* return from the called function with a status code: ServeHTTP goes on at
\* its line 68
Return(p, l, code) ==
    /\ loc' = [loc EXCEPT ![p] = [l EXCEPT !.statusCode = code]]
    /\ pc' = [pc EXCEPT ![p] = "respond"]

\* writeTableFile, line 90: the body's length against the manifest's
LengthMismatch(tfd, data) ==
    tfd.ContentLength # 0 /\ tfd.ContentLength # ToUint64(Len(data))

\* HashMismatch with a slip: the digests are compared by their lengths
HashMismatchByLength(tfd, data) ==
    Len(tfd.ContentHash) > 0 /\ Len(tfd.ContentHash) # Len(MD5Sum(data))

\* writeTableFile, lines 94-99: the manifest has a hash and the body's MD5
\* is another
HashMismatch(tfd, data) ==
    Len(tfd.ContentHash) > 0 /\ tfd.ContentHash # MD5Sum(data)

\* CheckBody with a slip: the length of the body is not checked
CheckBodyNoLength(tfd, data, err) ==
    IF HashMismatch(tfd, data)
    THEN StatusBadRequest
    ELSE IF err THEN StatusInternalServerError
    ELSE 0

\* the checks of writeTableFile on the body it read: the status it returns
\* with, 0 when it goes on to writeLocal
CheckBody(tfd, data, err) ==
    IF LengthMismatch(tfd, data)
    THEN StatusBadRequest
    ELSE IF HashMismatch(tfd, data)
    THEN StatusBadRequest
    ELSE IF err THEN StatusInternalServerError
    ELSE 0

\* Lookup with a default-allow slip: a missing entry admits the upload unchecked
LookupDefaultAllow(registry, fileId) ==
    IF registry[fileId].ok THEN registry[fileId]
    ELSE [ok |-> TRUE, tfd |-> NoManifest]

\* writeTableFile, line 81: the registry lookup
Lookup(registry, fileId) == registry[fileId]

\* Truncate with a slip: the file is opened without O_TRUNC
TruncateKeep(f) == File(f.bytes)

\* os.WriteFile opens with O_CREATE|O_TRUNC: the file exists and is empty
Truncate(f) == File(<<>>)

\* what a write of data at offset 0 leaves in a file that held old
WriteAt0(old, data) == data \o SubSeq(old, Len(data) + 1, Len(old))

\* RangeTooLarge with an off-by-one slip: a range ending at the last byte is refused
RangeTooLargeOffByOne(size, offset, length) == size <= ToInt64(offset + length)

\* the size check of readLocalRange
RangeTooLarge(size, offset, length) == size < ToInt64(offset + length)

\* Stat with a slip: a missing file is reported as an empty one
StatNoError(f) == [err |-> FALSE, size |-> Len(f.bytes)]

\* os.Stat of the path of f: an error when there is no file, else its size
Stat(f) == [err |-> ~f.exists, size |-> Len(f.bytes)]

\* the bytes a handle at position pos has left to read
Rest(bytes, pos) == SubSeq(bytes, pos + 1, Len(bytes))

\* Route with a slip: every method but GET is taken for an upload
RouteUploadByDefault(method, rangeStr) ==
    IF method = MethodGet
    THEN IF rangeStr = <<>> THEN "readFile" ELSE "readChunk"
    ELSE "writeTableFile"

\* ServeHTTP, lines 54-66: the function the switch on req.Method calls;
\* "respond" when no case matches and statusCode stays 405
Route(method, rangeStr) ==
    IF method = MethodGet
    THEN IF rangeStr = <<>> THEN "readFile" ELSE "readChunk"
    ELSE IF IsUpload(method) THEN "writeTableFile"
    ELSE "respond"

\* the server hands the request r to the goroutine p
Arrive(p, r) ==
    /\ pc[p] = "idle"
    /\ req' = [req EXCEPT ![p] = r]
    /\ pc' = [pc EXCEPT ![p] = "serve"]
    /\ loc' = [loc EXCEPT ![p] = NoLoc]
    /\ resp' = [resp EXCEPT ![p] = NoResp]
    /\ ioLog' = [ioLog EXCEPT ![p] = <<>>]
    /\ storeAtBegin' = [storeAtBegin EXCEPT ![p] = store]
    /\ prevUpload' = [prevUpload EXCEPT ![p] = lastUpload]
    /\ lastUpload' = NoUpload
    /\ UNCHANGED <<expectedFiles, store>>

(***************************************************************************)
(* Actions                                                                 *)
(***************************************************************************)
\* a request arrives at worker p
Begin(p) ==
    /\ \E m \in Methods, path \in PathInputs :
       \E rng \in (IF m = MethodGet THEN RangeInputs ELSE {<<>>}),
          body \in (IF IsUpload(m) THEN Bodies ELSE {<<>>}),
          bodyErr \in (IF IsUpload(m) THEN BOOLEAN ELSE {FALSE}) :
            Arrive(p, [method |-> m, path |-> path, range |-> rng,
                       body |-> body, bodyErr |-> bodyErr])

\* ServeHTTP, lines 41-66: split the path, answer 404 for a token count
\* other than three (and go on), take the three tokens, dispatch on the method
ServeHTTP(p) ==
    /\ pc[p] = "serve"
    /\ LET tokens == Split(TrimLeft(req[p].path, "/"), "/")
           r1 == IF Len(tokens) # 3
                 THEN WriteHeader(resp[p], StatusNotFound)
                 ELSE resp[p]
       IN  IF Len(tokens) < 3
           THEN \* tokens[1] or tokens[2] is out of range: the handler panics
                /\ resp' = [resp EXCEPT ![p] = [r1 EXCEPT !.fault = TRUE]]
                /\ pc' = [pc EXCEPT ![p] = "done"]
                /\ UNCHANGED loc
           ELSE /\ resp' = [resp EXCEPT ![p] = r1]
                /\ loc' = [loc EXCEPT ![p] =
                              [@ EXCEPT !.org = SegStr(tokens[1]),
                                        !.repo = SegStr(tokens[2]),
                                        !.hashStr = SegStr(tokens[3]),
                                        !.statusCode = StatusMethodNotAllowed]]
                /\ pc' = [pc EXCEPT ![p] = Route(req[p].method, req[p].range)]
    /\ UNCHANGED <<expectedFiles, store, req, ioLog, storeAtBegin, lastUpload, prevUpload>>

\* ServeHTTP, lines 68-70
Respond(p) ==
    /\ pc[p] = "respond"
    /\ resp' = [resp EXCEPT ![p] =
                   IF loc[p].statusCode # NoStatus
                   THEN WriteHeader(@, loc[p].statusCode)
                   ELSE @]
    /\ pc' = [pc EXCEPT ![p] = "done"]
    /\ UNCHANGED <<expectedFiles, store, req, loc, ioLog, storeAtBegin, lastUpload, prevUpload>>

\* the request is over; the worker is free again
Finish(p) ==
    /\ pc[p] = "done"
    /\ pc' = [pc EXCEPT ![p] = "idle"]
    /\ req' = [req EXCEPT ![p] = NoReq]
    /\ loc' = [loc EXCEPT ![p] = NoLoc]
    /\ resp' = [resp EXCEPT ![p] = NoResp]
    /\ ioLog' = [ioLog EXCEPT ![p] = <<>>]
    /\ storeAtBegin' = [storeAtBegin EXCEPT ![p] = store]
    /\ prevUpload' = [prevUpload EXCEPT ![p] = NoUpload]
    /\ UNCHANGED <<expectedFiles, store, lastUpload>>

\* writeTableFile, lines 74-85: the hash check and the registry lookup
writeTableFile(p) ==
    /\ pc[p] = "writeTableFile"
    /\ IF ~MaybeParse(loc[p].hashStr)
       THEN /\ Return(p, loc[p], StatusBadRequest)
            /\ UNCHANGED ioLog
       ELSE /\ Log(p, "lookup")
            /\ IF ~Lookup(expectedFiles, loc[p].hashStr).ok
               THEN Return(p, loc[p], StatusBadRequest)
               ELSE /\ loc' = [loc EXCEPT ![p].tfd = Lookup(expectedFiles, loc[p].hashStr).tfd]
                    /\ pc' = [pc EXCEPT ![p] = "readBody"]
    /\ UNCHANGED <<expectedFiles, store, req, resp, storeAtBegin, lastUpload, prevUpload>>

\* writeTableFile, lines 88-104: read the body, check it against the manifest
writeTableFile_body(p) ==
    /\ pc[p] = "readBody"
    /\ LET data == req[p].body
           code == CheckBody(loc[p].tfd, data, req[p].bodyErr)
       IN  /\ IF code # 0
              THEN Return(p, loc[p], code)
              ELSE /\ loc' = [loc EXCEPT ![p].data = data]
                   /\ pc' = [pc EXCEPT ![p] = "writeLocal"]
           /\ lastUpload' = IF LengthMismatch(loc[p].tfd, data)
                            THEN [NoUpload EXCEPT !.kind = "rejected",
                                                  !.fileId = loc[p].hashStr,
                                                  !.tfd = loc[p].tfd]
                            ELSE lastUpload
    /\ UNCHANGED <<expectedFiles, store, req, resp, ioLog, storeAtBegin, prevUpload>>

\* writeLocal, line 118, first half of os.WriteFile: create or truncate
writeLocal(p) ==
    /\ pc[p] = "writeLocal"
    /\ \/ /\ store' = [store EXCEPT ![Key(p)] = Truncate(@)]
          /\ Log(p, "truncate")
          /\ pc' = [pc EXCEPT ![p] = "writeLocal_write"]
          /\ UNCHANGED loc
       \/ \* the open fails
          /\ Return(p, loc[p], StatusInternalServerError)
          /\ Log(p, "open-err")
          /\ UNCHANGED store
    /\ UNCHANGED <<expectedFiles, req, resp, storeAtBegin, lastUpload, prevUpload>>

\* writeLocal, line 118, second half of os.WriteFile: write the data; then
\* lines 120-127 and writeTableFile's lines 108-112
writeLocal_write(p) ==
    /\ pc[p] = "writeLocal_write"
    /\ \/ /\ store' = [store EXCEPT ![Key(p)] = File(WriteAt0(@.bytes, loc[p].data))]
          /\ Log(p, "write")
          /\ Return(p, loc[p], StatusOK)
          /\ lastUpload' =
                [kind |-> "stored", fileId |-> loc[p].hashStr,
                 tfd |-> loc[p].tfd, body |-> loc[p].data,
                 longerBefore |->
                    Len(storeAtBegin[p][Key(p)].bytes) > Len(loc[p].data)]
       \/ \* a storage fault: only k bytes get written
          \E k \in 0..Len(loc[p].data) :
            /\ k < Len(loc[p].data) \/ k = 0
            /\ store' = [store EXCEPT ![Key(p)] =
                            File(WriteAt0(@.bytes, SubSeq(loc[p].data, 1, k)))]
            /\ Log(p, "write-err")
            /\ Return(p, loc[p], StatusInternalServerError)
            /\ UNCHANGED lastUpload
    /\ UNCHANGED <<expectedFiles, req, resp, storeAtBegin, prevUpload>>


\* Close with a slip: the function returns without closing the file
CloseForgotten(l) == l

\* the deferred f.Close() of readFile (lines 177-185) and of readLocalRange
\* (lines 254-262), run when the function returns or panics: the locals l
\* with the handle closed
Close(l) == [l EXCEPT !.fh = NoHandle]

\* readFile, lines 161-168: stat
readFile(p) ==
    /\ pc[p] = "readFile"
    /\ Log(p, "stat")
    /\ IF Stat(store[Key(p)]).err
       THEN Return(p, loc[p], StatusNotFound)
       ELSE /\ loc' = [loc EXCEPT ![p].size = Stat(store[Key(p)]).size]
            /\ pc' = [pc EXCEPT ![p] = "readFile_open"]
    /\ UNCHANGED <<expectedFiles, store, req, resp, storeAtBegin, lastUpload, prevUpload>>

\* readFile, lines 170-175: open
readFile_open(p) ==
    /\ pc[p] = "readFile_open"
    /\ \/ /\ loc' = [loc EXCEPT ![p].fh = [open |-> TRUE, key |-> Key(p), pos |-> 0]]
          /\ Log(p, "open")
          /\ pc' = [pc EXCEPT ![p] = "readFile_copy"]
       \/ \* the open fails
          /\ Return(p, loc[p], StatusInternalServerError)
          /\ Log(p, "open-err")
    /\ UNCHANGED <<expectedFiles, store, req, resp, storeAtBegin, lastUpload, prevUpload>>

\* CopyStatus with a slip: a failed or short copy is answered with 500
CopyStatusOnShort(err, n, size) ==
    IF err \/ n # size THEN StatusInternalServerError ELSE NoStatus

\* readFile, lines 189-199: the status readFile returns with after io.Copy
\* gave err and the count n, the file's size being size at the stat
CopyStatus(err, n, size) ==
    IF err THEN NoStatus
    ELSE IF n # size THEN NoStatus
    ELSE NoStatus

\* readFile, lines 187-199: one round of io.Copy (read what the file has
\* left, write it to the response); at end of file, or when the response
\* write fails, the function returns -1 and the deferred Close runs
readFile_copy(p) ==
    /\ pc[p] = "readFile_copy"
    /\ LET fh == loc[p].fh
           rest == Rest(store[fh.key].bytes, fh.pos)
           closed == Close(loc[p])
       IN  IF rest = <<>>
           THEN /\ ioLog' = [ioLog EXCEPT ![p] = @ \o <<"read", "close">>]
                /\ Return(p, closed, CopyStatus(FALSE, loc[p].n, loc[p].size))
                /\ UNCHANGED resp
           ELSE \/ /\ resp' = [resp EXCEPT ![p] = Write(@, rest)]
                   /\ loc' = [loc EXCEPT ![p].n = @ + Len(rest),
                                         ![p].fh.pos = @ + Len(rest)]
                   /\ Log(p, "read")
                   /\ UNCHANGED pc
                \/ \* the response write fails after k bytes
                   \E k \in 0..(Len(rest) - 1) :
                     /\ resp' = [resp EXCEPT ![p] = Write(@, SubSeq(rest, 1, k))]
                     /\ ioLog' = [ioLog EXCEPT ![p] = @ \o <<"read", "resp-err", "close">>]
                     /\ Return(p, [closed EXCEPT !.n = @ + k],
                               CopyStatus(TRUE, loc[p].n + k, loc[p].size))
    /\ UNCHANGED <<expectedFiles, store, req, storeAtBegin, lastUpload, prevUpload>>

\* readChunk, lines 203-208: parse the Range header
readChunk(p) ==
    /\ pc[p] = "readChunk"
    /\ LET r == offsetAndLenFromRange(req[p].range)
       IN  IF r.err
           THEN Return(p, loc[p], StatusBadRequest)
           ELSE /\ loc' = [loc EXCEPT ![p].offset = r.offset, ![p].length = r.length]
                /\ pc' = [pc EXCEPT ![p] = "readLocalRange"]
    /\ UNCHANGED <<expectedFiles, store, req, resp, ioLog, storeAtBegin, lastUpload, prevUpload>>

\* readLocalRange, lines 229-244: stat and the size check
readLocalRange(p) ==
    /\ pc[p] = "readLocalRange"
    /\ Log(p, "stat")
    /\ IF Stat(store[Key(p)]).err
       THEN Return(p, loc[p], StatusNotFound)
       ELSE IF RangeTooLarge(Stat(store[Key(p)]).size, loc[p].offset, loc[p].length)
       THEN Return(p, [loc[p] EXCEPT !.size = Stat(store[Key(p)]).size], StatusBadRequest)
       ELSE /\ loc' = [loc EXCEPT ![p].size = Stat(store[Key(p)]).size]
            /\ pc' = [pc EXCEPT ![p] = "readLocalRange_open"]
    /\ UNCHANGED <<expectedFiles, store, req, resp, storeAtBegin, lastUpload, prevUpload>>

\* readLocalRange, lines 247-252: open
readLocalRange_open(p) ==
    /\ pc[p] = "readLocalRange_open"
    /\ \/ /\ loc' = [loc EXCEPT ![p].fh = [open |-> TRUE, key |-> Key(p), pos |-> 0]]
          /\ Log(p, "open")
          /\ pc' = [pc EXCEPT ![p] = "readLocalRange_seek"]
       \/ \* the open fails
          /\ Return(p, loc[p], StatusInternalServerError)
          /\ Log(p, "open-err")
    /\ UNCHANGED <<expectedFiles, store, req, resp, storeAtBegin, lastUpload, prevUpload>>

\* readLocalRange, lines 265-270: seek; a negative offset is an error
readLocalRange_seek(p) ==
    /\ pc[p] = "readLocalRange_seek"
    /\ IF loc[p].offset < 0
       THEN /\ ioLog' = [ioLog EXCEPT ![p] = @ \o <<"seek", "close">>]
            /\ Return(p, Close(loc[p]), StatusInternalServerError)
       ELSE /\ Log(p, "seek")
            /\ loc' = [loc EXCEPT ![p].fh.pos = loc[p].offset]
            /\ pc' = [pc EXCEPT ![p] = "readLocalRange_read"]
    /\ UNCHANGED <<expectedFiles, store, req, resp, storeAtBegin, lastUpload, prevUpload>>

\* the largest slice the runtime allocates: far above any file, far below
\* the largest int
MaxAlloc == TwoPow(IntBits - 2)

\* iohelp.ReadNBytes(f, n) for 0 <= n <= MaxAlloc: n bytes from the handle's position, an
\* error when the file has fewer left
ReadNBytes(bytes, pos, n) ==
    IF Len(Rest(bytes, pos)) >= n
    THEN [err |-> FALSE, data |-> SubSeq(Rest(bytes, pos), 1, n)]
    ELSE [err |-> TRUE, data |-> <<>>]

\* readLocalRange, lines 273-282: read diff+length bytes, drop the first diff
readLocalRange_read(p) ==
    /\ pc[p] = "readLocalRange_read"
    /\ LET fh == loc[p].fh
           diff == ToInt64(loc[p].offset - fh.pos)
           n == ToInt64(diff + loc[p].length)
           closed == Close(loc[p])
       IN  IF n < 0 \/ n > MaxAlloc
           THEN \* a negative or huge count: the read fails or the allocation
                \* of the buffer panics
                \/ /\ Return(p, closed, StatusInternalServerError)
                   /\ ioLog' = [ioLog EXCEPT ![p] = @ \o <<"close">>]
                   /\ UNCHANGED resp
                \/ /\ resp' = [resp EXCEPT ![p].fault = TRUE]
                   /\ pc' = [pc EXCEPT ![p] = "done"]
                   /\ loc' = [loc EXCEPT ![p] = closed]
                   /\ ioLog' = [ioLog EXCEPT ![p] = @ \o <<"close">>]
           ELSE LET r == ReadNBytes(store[fh.key].bytes, fh.pos, n)
                IN  /\ ioLog' = [ioLog EXCEPT ![p] = @ \o <<"read", "close">>]
                    /\ UNCHANGED resp
                    /\ IF r.err
                       THEN Return(p, closed, StatusInternalServerError)
                       ELSE /\ loc' = [loc EXCEPT ![p] =
                                          [closed EXCEPT !.data =
                                              SubSeq(r.data, diff + 1, Len(r.data))]]
                            /\ pc' = [pc EXCEPT ![p] = "readChunk_write"]
    /\ UNCHANGED <<expectedFiles, store, req, storeAtBegin, lastUpload, prevUpload>>

\* readChunk, lines 212-225: write the data to the response
readChunk_write(p) ==
    /\ pc[p] = "readChunk_write"
    /\ LET data == loc[p].data
       IN  IF data = <<>>
           THEN UNCHANGED <<resp, ioLog>>
           ELSE \/ /\ resp' = [resp EXCEPT ![p] = Write(@, data)]
                   /\ UNCHANGED ioLog
                \/ \* the response write fails after k bytes
                   \E k \in 0..(Len(data) - 1) :
                     /\ resp' = [resp EXCEPT ![p] = Write(@, SubSeq(data, 1, k))]
                     /\ Log(p, "resp-err")
    /\ Return(p, loc[p], NoStatus)
    /\ UNCHANGED <<expectedFiles, store, req, storeAtBegin, lastUpload, prevUpload>>

(***************************************************************************)
(* The control plane and the process                                       *)
(***************************************************************************)
\* the control plane registers the manifest of a file it expects
Register ==
    /\ Idle
    /\ \E f \in {g \in FileIdSegs : MaybeParse(g)}, m \in Manifests :
         /\ expectedFiles[f] # [ok |-> TRUE, tfd |-> m]
         /\ expectedFiles' = [expectedFiles EXCEPT ![f] = [ok |-> TRUE, tfd |-> m]]
    /\ lastUpload' = NoUpload
    /\ UNCHANGED <<store, req, pc, loc, resp, ioLog, storeAtBegin, prevUpload>>
    /\ UNCHANGED pureVars

\* the server process is restarted: the registry starts empty (line 35), the
\* files stay on disk
Restart ==
    /\ Idle
    /\ \E f \in FileIdSegs : expectedFiles[f].ok
    /\ expectedFiles' = [f \in FileIdSegs |-> [ok |-> FALSE, tfd |-> NoManifest]]
    /\ lastUpload' = NoUpload
    /\ UNCHANGED <<store, req, pc, loc, resp, ioLog, storeAtBegin, prevUpload>>
    /\ UNCHANGED pureVars

(***************************************************************************)
(* Requests served one at a time by worker 1                               *)
(***************************************************************************)
Worker == CHOOSE p \in Procs : \A q \in Procs : p <= q

Receive == Idle /\ Begin(Worker) /\ UNCHANGED pureVars

Dispatch == \E p \in Procs : ServeHTTP(p) /\ UNCHANGED pureVars

Upload == \E p \in Procs : writeTableFile(p) /\ UNCHANGED pureVars

UploadBody == \E p \in Procs : writeTableFile_body(p) /\ UNCHANGED pureVars

UploadOpen == \E p \in Procs : writeLocal(p) /\ UNCHANGED pureVars

UploadWrite == \E p \in Procs : writeLocal_write(p) /\ UNCHANGED pureVars

ReadStat == \E p \in Procs : readFile(p) /\ UNCHANGED pureVars

ReadOpen == \E p \in Procs : readFile_open(p) /\ UNCHANGED pureVars

ReadCopy == \E p \in Procs : readFile_copy(p) /\ UNCHANGED pureVars

ChunkParse == \E p \in Procs : readChunk(p) /\ UNCHANGED pureVars

ChunkStat == \E p \in Procs : readLocalRange(p) /\ UNCHANGED pureVars

ChunkOpen == \E p \in Procs : readLocalRange_open(p) /\ UNCHANGED pureVars

ChunkSeek == \E p \in Procs : readLocalRange_seek(p) /\ UNCHANGED pureVars

ChunkRead == \E p \in Procs : readLocalRange_read(p) /\ UNCHANGED pureVars

ChunkWrite == \E p \in Procs : readChunk_write(p) /\ UNCHANGED pureVars

WriteStatus == \E p \in Procs : Respond(p) /\ UNCHANGED pureVars

End == \E p \in Procs : Finish(p) /\ UNCHANGED pureVars

Next ==
    \/ Receive
    \/ Dispatch
    \/ Upload
    \/ UploadBody
    \/ UploadOpen
    \/ UploadWrite
    \/ ReadStat
    \/ ReadOpen
    \/ ReadCopy
    \/ ChunkParse
    \/ ChunkStat
    \/ ChunkOpen
    \/ ChunkSeek
    \/ ChunkRead
    \/ ChunkWrite
    \/ WriteStatus
    \/ End
    \/ Register
    \/ Restart

Spec == Init /\ [][Next]_vars

(***************************************************************************)
(* Calls of offsetAndLenFromRange on its own                               *)
(***************************************************************************)
\* the numbers written in the Range texts: every value of the unsigned
\* width, and the first one past it
RangeArgs == 0..TwoPow(IntBits)

\* bytes=<a>-<b> with blanks around both numbers
SpacedRangeOf(a, b) ==
    BytesEq \o <<" ">> \o FormatUint(a) \o <<" ", "-", " ">> \o FormatUint(b) \o <<" ">>

NoDashText == BytesEq \o <<"5">>

NoPrefixText == <<"1", "0", "-", "2", "0">>

RangeTexts ==
    {<<>>, NoDashText, NoPrefixText}
        \cup {RangeOf(a, b) : a \in RangeArgs, b \in RangeArgs}
        \cup {SpacedRangeOf(a, b) : a \in RangeArgs, b \in RangeArgs}

InitRange ==
    /\ expectedFiles = [f \in FileIdSegs |-> [ok |-> FALSE, tfd |-> NoManifest]]
    /\ store = [k \in Keys |-> NoFile]
    /\ req = [p \in Procs |-> NoReq]
    /\ pc = [p \in Procs |-> "idle"]
    /\ loc = [p \in Procs |-> NoLoc]
    /\ resp = [p \in Procs |-> NoResp]
    /\ ioLog = [p \in Procs |-> <<>>]
    /\ storeAtBegin = [p \in Procs |-> store]
    /\ lastUpload = NoUpload
    /\ prevUpload = [p \in Procs |-> NoUpload]
    /\ rangeCall \in {[NoRangeCall EXCEPT !.in = r] : r \in RangeTexts}
    /\ necCall = NoNecCall

\* offset, length, err := offsetAndLenFromRange(rngStr)
ParseRange ==
    /\ ~rangeCall.done
    /\ rangeCall' = [rangeCall EXCEPT !.done = TRUE,
                                      !.out = offsetAndLenFromRange(rangeCall.in)]
    /\ UNCHANGED <<expectedFiles, store, req, pc, loc, resp, ioLog, storeAtBegin,
                   lastUpload, prevUpload, necCall>>

NextRange == ParseRange

SpecRange == InitRange /\ [][NextRange]_vars

(***************************************************************************)
(* Requests for one registered file served concurrently: one goroutine     *)
(* per request, which ends with its request                                *)
(***************************************************************************)
ConcFileId == "h1"

ConcPath == PathOf(<<"o1", "r1", ConcFileId>>)

\* one body of each length, told apart by their bytes
ConcBodies == {[i \in 1..n |-> n % 2] : n \in 0..MaxLen}

\* no Range header, the whole of the longest file, its last byte, and a
\* range whose end is the largest unsigned value
ConcRanges ==
    {<<>>, RangeOf(0, MaxLen - 1), RangeOf(MaxLen - 1, MaxLen - 1),
     RangeOf(0, TwoPow(IntBits) - 1)}

ConcRequests ==
    {[method |-> MethodGet, path |-> ConcPath, range |-> rng,
      body |-> <<>>, bodyErr |-> FALSE] : rng \in ConcRanges}
        \cup {[method |-> MethodPut, path |-> ConcPath, range |-> <<>>,
               body |-> body, bodyErr |-> FALSE] : body \in ConcBodies}

\* the files left at the key by earlier uploads
ConcStores ==
    {[k \in Keys |-> IF k = Join("o1", "r1", ConcFileId) THEN f ELSE NoFile] :
        f \in {NoFile} \cup {File(b) : b \in ConcBodies}}

\* the control plane has registered the file with a manifest that checks
\* neither length nor hash; earlier uploads may have stored it
InitConc ==
    /\ expectedFiles =
          [f \in FileIdSegs |-> IF f = ConcFileId
                                THEN [ok |-> TRUE, tfd |-> NoManifest]
                                ELSE [ok |-> FALSE, tfd |-> NoManifest]]
    /\ store \in ConcStores
    /\ req = [p \in Procs |-> NoReq]
    /\ pc = [p \in Procs |-> "idle"]
    /\ loc = [p \in Procs |-> NoLoc]
    /\ resp = [p \in Procs |-> NoResp]
    /\ ioLog = [p \in Procs |-> <<>>]
    /\ storeAtBegin = [p \in Procs |-> store]
    /\ lastUpload = NoUpload
    /\ prevUpload = [p \in Procs |-> NoUpload]
    /\ rangeCall = NoRangeCall
    /\ necCall = NoNecCall

\* a request arrives while others may be in progress
ReceiveConc ==
    \E p \in Procs, r \in ConcRequests : Arrive(p, r) /\ UNCHANGED pureVars

NextConc ==
    \/ ReceiveConc
    \/ Dispatch
    \/ Upload
    \/ UploadBody
    \/ UploadOpen
    \/ UploadWrite
    \/ ReadStat
    \/ ReadOpen
    \/ ReadCopy
    \/ ChunkParse
    \/ ChunkStat
    \/ ChunkOpen
    \/ ChunkSeek
    \/ ChunkRead
    \/ ChunkWrite
    \/ WriteStatus

SpecConc == InitConc /\ [][NextConc]_vars

(***************************************************************************)
(* rowconv.IsNecessary                                                     *)
(***************************************************************************)
Tags == {1, 2}

TypeInfos == {"int", "string"}

\* schema.Column, the fields IsNecessary reads
Columns == [Tag : Tags, IsPartOfPK : BOOLEAN, TypeInfo : TypeInfos]

\* schema.Schema: its columns in their order, no tag twice
Schemas ==
    UNION {{sch \in [1..n -> Columns] :
                \A i \in 1..n, j \in 1..n : sch[i].Tag = sch[j].Tag => i = j} :
           n \in 1..Cardinality(Tags)}

TagsOf(cols) == {cols[i].Tag : i \in 1..Len(cols)}

\* the maps a FieldMapping holds for the two schemas, as sets of <<k, v>>:
\* every key is a tag of destSch, every value a tag of srcSch
Mappings(srcSch, destSch) ==
    UNION {{{<<k, f[k]>> : k \in D} : f \in [D -> TagsOf(srcSch)]} :
           D \in SUBSET TagsOf(destSch)}

GetAllCols(sch) == sch

IsPK(col) == col.IsPartOfPK

GetPKCols(sch) == SelectSeq(sch, IsPK)

GetByTag(cols, tag) == CHOOSE col \in {cols[i] : i \in 1..Len(cols)} : col.Tag = tag

\* the callback of destPKCols.Iter, lines 158-167: it asks the Iter to stop
\* at the first index where the tags of the key columns differ
IterStopped(srcPKCols, destPKCols) ==
    \E i \in 1..Len(destPKCols) : srcPKCols[i].Tag # destPKCols[i].Tag

\* IsNecessary, lines 121-174; the error it returns is always nil
IsNecessary(srcSch, destSch, destToSrc) ==
    LET srcCols == GetAllCols(srcSch)
        destCols == GetAllCols(destSch)
        srcPKCols == GetPKCols(srcSch)
        destPKCols == GetPKCols(destSch)
    IN  IF Cardinality(destToSrc) # Len(srcCols) \/ Cardinality(destToSrc) # Len(destCols)
        THEN TRUE
        ELSE IF \E kv \in destToSrc :
                   \/ kv[1] # kv[2]
                   \/ GetByTag(srcCols, kv[2]).IsPartOfPK # GetByTag(destCols, kv[1]).IsPartOfPK
                   \/ GetByTag(srcCols, kv[2]).TypeInfo # GetByTag(destCols, kv[1]).TypeInfo
        THEN TRUE
        ELSE IF Len(srcPKCols) # Len(destPKCols)
        THEN TRUE
        ELSE \* the stop of the callback ends the Iter and nothing more:
             \* lines 169-173 return false either way
             IF IterStopped(srcPKCols, destPKCols) THEN FALSE ELSE FALSE

InitNec ==
    /\ expectedFiles = [f \in FileIdSegs |-> [ok |-> FALSE, tfd |-> NoManifest]]
    /\ store = [k \in Keys |-> NoFile]
    /\ req = [p \in Procs |-> NoReq]
    /\ pc = [p \in Procs |-> "idle"]
    /\ loc = [p \in Procs |-> NoLoc]
    /\ resp = [p \in Procs |-> NoResp]
    /\ ioLog = [p \in Procs |-> <<>>]
    /\ storeAtBegin = [p \in Procs |-> store]
    /\ lastUpload = NoUpload
    /\ prevUpload = [p \in Procs |-> NoUpload]
    /\ rangeCall = NoRangeCall
    /\ \E src \in Schemas, dest \in Schemas :
       \E mp \in Mappings(src, dest) :
           necCall = [NoNecCall EXCEPT !.srcSch = src, !.destSch = dest,
                                       !.destToSrc = mp]

\* nec, err := IsNecessary(srcSch, destSch, destToSrc)
CallIsNecessary ==
    /\ ~necCall.done
    /\ necCall' = [necCall EXCEPT
                      !.done = TRUE,
                      !.out = IsNecessary(necCall.srcSch, necCall.destSch,
                                          necCall.destToSrc)]
    /\ UNCHANGED <<expectedFiles, store, req, pc, loc, resp, ioLog, storeAtBegin,
                   lastUpload, prevUpload, rangeCall>>

NextNec == CallIsNecessary

SpecNec == InitNec /\ [][NextNec]_vars

(***************************************************************************)
(* Properties                                                              *)
(***************************************************************************)
Tokens(p) == Split(TrimLeft(req[p].path, "/"), "/")

Done(p) == pc[p] = "done"

\* the request of p has a three-segment path
ThreeSegments(p) == Len(Tokens(p)) = 3

FileIdOf(p) == SegStr(Tokens(p)[3])

KeyOf(p) == Join(SegStr(Tokens(p)[1]), SegStr(Tokens(p)[2]), SegStr(Tokens(p)[3]))

UploadDone(p) == Done(p) /\ IsUpload(req[p].method) /\ ThreeSegments(p)

GetDone(p) == Done(p) /\ req[p].method = MethodGet /\ ThreeSegments(p)

\* no body read error, no failed open or write of a file, no failed write
\* of the response
NoIoFault(p) ==
    /\ ~req[p].bodyErr
    /\ \A i \in 1..Len(ioLog[p]) : ioLog[p][i] \notin {"open-err", "write-err", "resp-err"}

\* the request ended with the status code and nothing else
OnlyStatus(p, code) ==
    /\ resp[p].hdr = <<code>>
    /\ resp[p].body = <<>>
    /\ ~resp[p].fault

\* the request streamed the bytes and wrote no status code
OnlyBody(p, bytes) ==
    /\ resp[p].hdr = <<>>
    /\ resp[p].body = bytes
    /\ ~resp[p].fault

FileOps == {"stat", "open", "open-err", "seek", "read", "truncate", "write", "write-err", "close"}

Registered(f) == MaybeParse(f) /\ expectedFiles[f].ok

\* C1: an upload (PUT or POST, three-segment path) whose fileID has no entry
\* in expectedFiles ends with 400 and nothing else, and the store is as it
\* was when the request arrived: no file is created or modified.
C1_UnregisteredUploadRejected ==
    \A p \in Procs :
        (UploadDone(p) /\ ~expectedFiles[FileIdOf(p)].ok)
            => /\ OnlyStatus(p, StatusBadRequest)
               /\ store = storeAtBegin[p]

\* C1 witness: an upload to a well-formed but unregistered fileID was
\* rejected while a file with other contents is stored at its key
C1_Witness ==
    \E p \in Procs :
        /\ UploadDone(p)
        /\ MaybeParse(FileIdOf(p))
        /\ ~expectedFiles[FileIdOf(p)].ok
        /\ store[KeyOf(p)].exists
        /\ store[KeyOf(p)].bytes # req[p].body
        /\ resp[p].hdr = <<StatusBadRequest>>

\* C2: an upload whose manifest has a nonzero length L and whose body has
\* another length ends with 400 and leaves the store as it was; and the
\* upload to the same fileID that follows such a rejection, with a body of
\* exactly L bytes that matches the manifest's checksum (if any), ends with
\* 200 and its body is the stored file (the body is read and the file is
\* written without an I/O error).
C2_LengthMismatchThenRetry ==
    \A p \in Procs :
        UploadDone(p) =>
            /\ (/\ Registered(FileIdOf(p))
                /\ LengthMismatch(expectedFiles[FileIdOf(p)].tfd, req[p].body))
                   => /\ OnlyStatus(p, StatusBadRequest)
                      /\ store = storeAtBegin[p]
                      /\ lastUpload.kind = "rejected"
            /\ (/\ prevUpload[p].kind = "rejected"
                /\ prevUpload[p].fileId = FileIdOf(p)
                /\ Len(req[p].body) = prevUpload[p].tfd.ContentLength
                /\ prevUpload[p].tfd.ContentHash \in {<<>>, MD5Sum(req[p].body)}
                /\ NoIoFault(p))
                   => /\ OnlyStatus(p, StatusOK)
                      /\ store[KeyOf(p)] = File(req[p].body)

\* C2 witness: the retry after a length rejection stored a non-empty body
C2_Witness ==
    \E p \in Procs :
        /\ UploadDone(p)
        /\ prevUpload[p].kind = "rejected"
        /\ prevUpload[p].fileId = FileIdOf(p)
        /\ Len(req[p].body) = prevUpload[p].tfd.ContentLength
        /\ resp[p].hdr = <<StatusOK>>
        /\ store[KeyOf(p)] = File(req[p].body)

\* C3: for an upload whose manifest has a checksum: a body with another MD5
\* is rejected with 400 and the store is untouched; a body with that MD5 and
\* the manifest's length (or no length in the manifest) ends with 200 and is
\* the whole stored file; and the whole-file GET of that key that follows
\* the upload streams exactly the uploaded bytes and writes no status code,
\* whatever was stored at the key before (no I/O error in either request).
C3_ChecksumAndRoundTrip ==
    \A p \in Procs :
        /\ (UploadDone(p) /\ Registered(FileIdOf(p))
               /\ expectedFiles[FileIdOf(p)].tfd.ContentHash # <<>>)
              => LET tfd == expectedFiles[FileIdOf(p)].tfd
                 IN  /\ tfd.ContentHash # MD5Sum(req[p].body)
                          => /\ OnlyStatus(p, StatusBadRequest)
                             /\ store = storeAtBegin[p]
                     /\ (/\ tfd.ContentHash = MD5Sum(req[p].body)
                         /\ tfd.ContentLength \in {0, Len(req[p].body)}
                         /\ NoIoFault(p))
                          => /\ OnlyStatus(p, StatusOK)
                             /\ store[KeyOf(p)] = File(req[p].body)
        /\ (/\ GetDone(p)
            /\ req[p].range = <<>>
            /\ prevUpload[p].kind = "stored"
            /\ prevUpload[p].fileId = FileIdOf(p)
            /\ prevUpload[p].tfd.ContentHash # <<>>
            /\ NoIoFault(p))
              => OnlyBody(p, prevUpload[p].body)

\* C3 witness: a whole-file GET streamed the body of the checksummed upload
\* before it, which had replaced a longer file
C3_Witness ==
    \E p \in Procs :
        /\ GetDone(p)
        /\ req[p].range = <<>>
        /\ prevUpload[p].kind = "stored"
        /\ prevUpload[p].fileId = FileIdOf(p)
        /\ prevUpload[p].tfd.ContentHash # <<>>
        /\ prevUpload[p].longerBefore
        /\ prevUpload[p].body # <<>>
        /\ resp[p].body = prevUpload[p].body

\* C4: a ranged GET with bytes=a-b, a <= b < fileSize, of a stored file
\* writes exactly the b-a+1 bytes storedBytes[a..b] to the response and no
\* status code (requests are served one at a time; no I/O error).
C4_RangedGetExactBytes ==
    \A p \in Procs :
        (GetDone(p) /\ store[KeyOf(p)].exists /\ NoIoFault(p)) =>
            \A a \in 0..MaxLen, b \in 0..MaxLen :
                (/\ a <= b
                 /\ b < Len(store[KeyOf(p)].bytes)
                 /\ req[p].range = RangeOf(a, b))
                    => /\ OnlyBody(p, SubSeq(store[KeyOf(p)].bytes, a + 1, b + 1))
                       /\ Len(resp[p].body) = b - a + 1

\* C4 witness: a ranged GET that starts past the first byte and ends at the
\* last byte of the file has streamed its bytes
C4_Witness ==
    \E p \in Procs :
        /\ GetDone(p)
        /\ store[KeyOf(p)].exists
        /\ \E a \in 1..MaxLen :
             /\ a + 1 = Len(store[KeyOf(p)].bytes)
             /\ req[p].range = RangeOf(a, a)
             /\ resp[p].body = <<store[KeyOf(p)].bytes[a + 1]>>

\* values a component of a Range header takes that fit the unsigned width
UintNums == {n \in RangeNums : n < TwoPow(IntBits)}

\* the Range headers of the accepted grammar bytes=<start>-<end>, end >=
\* start, blanks around the numbers allowed
InGrammar(r) ==
    \/ \E a \in UintNums, b \in UintNums : a <= b /\ r = RangeOf(a, b)
    \/ r = BytesEq \o <<" ", "0", " ", "-", " ", "1", " ">>

\* C5: a ranged GET of a stored file with bytes=a-b, a <= b any unsigned
\* values, b >= fileSize, ends with 400 and no body, and the file is not
\* opened.
C5_RangePastEndRejected ==
    \A p \in Procs :
        (GetDone(p) /\ store[KeyOf(p)].exists) =>
            \A a \in UintNums, b \in UintNums :
                (/\ a <= b
                 /\ b >= Len(store[KeyOf(p)].bytes)
                 /\ req[p].range = RangeOf(a, b))
                    => /\ OnlyStatus(p, StatusBadRequest)
                       /\ \A i \in 1..Len(ioLog[p]) : ioLog[p][i] \notin {"open", "open-err"}

\* C6: a GET whose non-empty Range header is not of the accepted grammar
\* (no bytes= prefix, not two tokens, a component that is no number, or
\* end < start) ends with 400 and no body.
C6_MalformedRangeRejected ==
    \A p \in Procs :
        (GetDone(p) /\ req[p].range # <<>> /\ ~InGrammar(req[p].range))
            => OnlyStatus(p, StatusBadRequest)

\* C7: a request whose path does not split into exactly three segments
\* ends, for every method, with 404 as its only outcome: no other status
\* code, no body, no fault of the handler.
C7_BadPathOnlyNotFound ==
    \A p \in Procs :
        (Done(p) /\ ~ThreeSegments(p)) => OnlyStatus(p, StatusNotFound)

\* C8: a request whose path has a segment count other than three does no
\* registry lookup and no file operation, and leaves the store as it was.
C8_BadPathTouchesNothing ==
    \A p \in Procs :
        (pc[p] # "idle" /\ ~ThreeSegments(p))
            => /\ ioLog[p] = <<>>
               /\ store = storeAtBegin[p]

\* C9: every request ends with one outcome: body bytes and no status code,
\* or one status code and no body; never a status code with a body, never
\* two status codes.
C9_OneTerminalOutcome ==
    \A p \in Procs :
        Done(p) => /\ Len(resp[p].hdr) <= 1
                   /\ (resp[p].hdr # <<>> => resp[p].body = <<>>)

\* C10: a request whose fileID segment is not the text of a Hash does no
\* stat, open, read or write of the store, on the read paths as on the
\* upload path.
C10_BadHashNoFileAccess ==
    \A p \in Procs :
        (pc[p] # "idle" /\ Len(Tokens(p)) >= 3 /\ ~MaybeParse(FileIdOf(p)))
            => \A i \in 1..Len(ioLog[p]) : ioLog[p][i] \notin FileOps

\* C11: a request with a three-segment path and a method other than GET,
\* PUT and POST ends with 405 and nothing else, and does no registry lookup
\* and no file operation; the store is as it was.
C11_OtherMethodNotAllowed ==
    \A p \in Procs :
        (/\ pc[p] # "idle"
         /\ ThreeSegments(p)
         /\ req[p].method \notin {MethodGet, MethodPut, MethodPost})
            => /\ ioLog[p] = <<>>
               /\ store = storeAtBegin[p]
               /\ resp[p].body = <<>>
               /\ Done(p) => OnlyStatus(p, StatusMethodNotAllowed)

\* C11 witness: a DELETE of a stored, registered file has ended with 405
C11_Witness ==
    \E p \in Procs :
        /\ Done(p)
        /\ ThreeSegments(p)
        /\ req[p].method = "DELETE"
        /\ store[KeyOf(p)].exists
        /\ expectedFiles[FileIdOf(p)].ok
        /\ resp[p].hdr = <<StatusMethodNotAllowed>>

\* C12: a GET (whole-file, or ranged with a Range header of the grammar)
\* of a three-segment path with a well-formed hash and no file stored at
\* its key ends with 404 and nothing else, and the store is as it was: the
\* read creates no file.
C12_MissingFileNotFound ==
    \A p \in Procs :
        (/\ GetDone(p)
         /\ MaybeParse(FileIdOf(p))
         /\ ~storeAtBegin[p][KeyOf(p)].exists
         /\ (req[p].range = <<>> \/ InGrammar(req[p].range)))
            => /\ OnlyStatus(p, StatusNotFound)
               /\ store = storeAtBegin[p]

\* C12 witness: a ranged GET of a missing file has ended with 404
C12_Witness ==
    \E p \in Procs :
        /\ GetDone(p)
        /\ MaybeParse(FileIdOf(p))
        /\ ~store[KeyOf(p)].exists
        /\ req[p].range = RangeOf(0, 1)
        /\ resp[p].hdr = <<StatusNotFound>>
        /\ ioLog[p] = <<"stat">>

\* C13: offsetAndLenFromRange gives (-1, -1) and no error for the empty
\* text; offset a and length b-a+1 and no error for bytes=<a>-<b> with
\* decimal a <= b, blanks around the numbers or not; an error for bytes=5
\* and for 10-20.
C13_RangeParser ==
    rangeCall.done =>
        /\ rangeCall.in = <<>> =>
               rangeCall.out = [offset |-> 0 - 1, length |-> 0 - 1, err |-> FALSE]
        /\ \A a \in RangeArgs, b \in RangeArgs :
               (a <= b /\ rangeCall.in \in {RangeOf(a, b), SpacedRangeOf(a, b)})
                   => rangeCall.out = [offset |-> a, length |-> b - a + 1, err |-> FALSE]
        /\ rangeCall.in \in {NoDashText, NoPrefixText} => rangeCall.out.err

\* the upload of p got as far as writeLocal
WriteLocalInvoked(p) ==
    \E i \in 1..Len(ioLog[p]) : ioLog[p][i] \in {"truncate", "open-err"}

\* the admission preconditions of the upload of p
Admitted(p) ==
    /\ MaybeParse(FileIdOf(p))
    /\ expectedFiles[FileIdOf(p)].ok
    /\ ~req[p].bodyErr
    /\ expectedFiles[FileIdOf(p)].tfd.ContentLength \in {0, Len(req[p].body)}
    /\ expectedFiles[FileIdOf(p)].tfd.ContentHash \in {<<>>, MD5Sum(req[p].body)}

\* C14: an upload invokes writeLocal exactly when its fileID parses as a
\* Hash, a manifest is registered for it, the body was read without error,
\* the manifest's length is 0 or the body's length, and the manifest's hash
\* is empty or the body's MD5; in every other case the stored file at its
\* key is as it was when the request arrived.
C14_WrittenIffAdmitted ==
    \A p \in Procs :
        (/\ pc[p] # "idle"
         /\ IsUpload(req[p].method)
         /\ Len(Tokens(p)) >= 3)
            => /\ WriteLocalInvoked(p) => Admitted(p)
               /\ (Done(p) /\ Admitted(p)) => WriteLocalInvoked(p)
               /\ ~Admitted(p) => store[KeyOf(p)] = storeAtBegin[p][KeyOf(p)]

\* C14 witness: an upload with a manifest that checks length and hash has
\* replaced a stored file with other contents
C14_Witness ==
    \E p \in Procs :
        /\ UploadDone(p)
        /\ Admitted(p)
        /\ expectedFiles[FileIdOf(p)].tfd.ContentLength # 0
        /\ expectedFiles[FileIdOf(p)].tfd.ContentHash # <<>>
        /\ storeAtBegin[p][KeyOf(p)].exists
        /\ storeAtBegin[p][KeyOf(p)].bytes # req[p].body
        /\ store[KeyOf(p)] = File(req[p].body)

\* C15: once a GET has written a body byte to the response, no status code
\* is written for that request: the read function returns -1 (after a copy
\* error, after a copy whose count is not the size of the stat, after a
\* failed write of a range) and ServeHTTP writes no header.
C15_NoStatusAfterBody ==
    [][\A p \in Procs :
          (req[p].method = MethodGet /\ resp[p].body # <<>>)
              => /\ pc[p] = "respond" => loc[p].statusCode = NoStatus
                 /\ pc'[p] = "idle" \/ resp'[p].hdr = resp[p].hdr]_vars

\* C15 witness: a whole-file GET that raced with an upload has copied a
\* count of bytes that is not the size it saw at the stat, and has ended
\* with those bytes and no status code
C15_Witness ==
    \E p \in Procs :
        /\ Done(p)
        /\ req[p].method = MethodGet
        /\ req[p].range = <<>>
        /\ loc[p].n # loc[p].size
        /\ "resp-err" \notin {ioLog[p][i] : i \in 1..Len(ioLog[p])}
        /\ resp[p].body # <<>>
        /\ resp[p].hdr = <<>>

\* C16: a ranged GET with bytes=a-b, a <= b, that runs while uploads
\* overwrite its key writes exactly b-a+1 bytes to the response, or writes
\* no byte and ends with a status code; never fewer or more bytes than
\* requested (the write of the response does not fail).
C16_RangedGetAllOrNothing ==
    \A p \in Procs :
        (GetDone(p) /\ "resp-err" \notin {ioLog[p][i] : i \in 1..Len(ioLog[p])}) =>
            \A a \in UintNums, b \in UintNums :
                (a <= b /\ req[p].range = RangeOf(a, b))
                    => \/ Len(resp[p].body) = b - a + 1
                       \/ /\ resp[p].body = <<>>
                          /\ Len(resp[p].hdr) = 1

\* C17: when the uploads of all goroutines to the same fileID have ended
\* with 200, the stored file is, in full, the body of the upload whose
\* write completed last, and no mixture of bytes of different bodies.
C17_LastWriterWins ==
    (\A p \in Procs :
        /\ UploadDone(p)
        /\ FileIdOf(p) = ConcFileId
        /\ resp[p].hdr = <<StatusOK>>)
        => /\ lastUpload.kind = "stored"
           /\ store[Join("o1", "r1", ConcFileId)] = File(lastUpload.body)

\* the number of times op is in the log of p
Count(p, op) == Cardinality({i \in 1..Len(ioLog[p]) : ioLog[p][i] = op})

\* C18: the file handle a GET opens is closed exactly once before the
\* request finishes, whatever the outcome (success, seek failure, short
\* read, copy or write error, panic), and no handle is open when no request
\* is in progress.
C18_HandleReleased ==
    \A p \in Procs :
        /\ Count(p, "open") <= 1
        /\ Count(p, "close") <= Count(p, "open")
        /\ loc[p].fh.open <=> Count(p, "open") > Count(p, "close")
        /\ pc[p] \in {"readChunk_write", "respond", "done", "idle"}
              => /\ ~loc[p].fh.open
                 /\ Count(p, "close") = Count(p, "open")

\* C18 witness: a ranged GET whose seek failed has ended with 500 and its
\* handle closed
C18_Witness ==
    \E p \in Procs :
        /\ GetDone(p)
        /\ ioLog[p] = <<"stat", "open", "seek", "close">>
        /\ resp[p].hdr = <<StatusInternalServerError>>
        /\ ~loc[p].fh.open

\* the tags of the primary-key columns of a schema, in their order
PKTags(sch) == [i \in 1..Len(GetPKCols(sch)) |-> GetPKCols(sch)[i].Tag]

\* C19: IsNecessary returns false only when the mapping has as many entries
\* as each schema has columns, maps every tag to itself, the columns of
\* every pair agree in primary-key membership and type, and the primary-key
\* columns come in the same tag order in both schemas; it returns true when
\* the primary-key column at some index differs between the schemas.
C19_IdentityOnlyWhenSame ==
    necCall.done =>
        /\ ~necCall.out =>
              /\ Cardinality(necCall.destToSrc) = Len(necCall.srcSch)
              /\ Cardinality(necCall.destToSrc) = Len(necCall.destSch)
              /\ \A kv \in necCall.destToSrc :
                    /\ kv[1] = kv[2]
                    /\ GetByTag(necCall.srcSch, kv[2]).IsPartOfPK
                          = GetByTag(necCall.destSch, kv[1]).IsPartOfPK
                    /\ GetByTag(necCall.srcSch, kv[2]).TypeInfo
                          = GetByTag(necCall.destSch, kv[1]).TypeInfo
              /\ PKTags(necCall.srcSch) = PKTags(necCall.destSch)
        /\ PKTags(necCall.srcSch) # PKTags(necCall.destSch) => necCall.out

=============================================================================
